---- MODULE Spec2Model ----
(***************************************************************************)
(* radius_transact (src/radius.cc): one CHAP-over-RADIUS transaction.      *)
(*                                                                         *)
(* Every call into radcli / OpenSSL is a step of the caller whose outcome  *)
(* (success or failure, the server's answer) is chosen by the environment. *)
(* Text is modelled as a sequence of tokens, bytes as numbers 0..255.      *)
(***************************************************************************)
EXTENDS Integers, Sequences, FiniteSets, TLC

(* ------------------------------------------------------------------ *)
(* Bounds of the model                                                 *)
(* ------------------------------------------------------------------ *)
\* longest list of attributes a server reply carries
MaxReplyAttrs == 2

(* ------------------------------------------------------------------ *)
(* Program constants                                                   *)
(* ------------------------------------------------------------------ *)
kManufacturer == <<"foxconn">>
kModel == <<"e-wmta2.3,V5.0.0.1.rc35">>
kHwRev == <<"hw_rev_2.00">>
kVendorSoftbank == 22197
kSbBBMac == 1
kSbBBManufacturer == 2
kSbBBModel == 3
kSbBBHWRev == 4
MD5_DIGEST_LENGTH == 16

\* the standard attribute numbers and the "no vendor" mark the calls pass
VENDOR_NONE == 0
PW_USER_NAME == 1
PW_CHAP_PASSWORD == 3
PW_CHAP_CHALLENGE == 60

\* radcli's result codes, kept symbolic: only their being distinct matters
OK_RC == "OK_RC"
ERROR_RC == "ERROR_RC"
TIMEOUT_RC == "TIMEOUT_RC"
REJECT_RC == "REJECT_RC"
BADRESP_RC == "BADRESP_RC"
NO_RC == "none"

(* ------------------------------------------------------------------ *)
(* Inputs                                                              *)
(* ------------------------------------------------------------------ *)
Procs == {1, 2}

\* IpAddress values: the compressed text and the expanded text of an address
Ips ==
  { [text |-> "192.0.2.1", expanded |-> "192.000.002.001"],
    [text |-> "2001:db8::1", expanded |-> "2001:0db8:0000:0000:0000:0000:0000:0001"] }

Secrets == { <<>>, <<"s3cret">> }

\* passwords as raw bytes; <<1, 4>> and <<4, 2>> collide under the digest below
Passwords == { <<>>, <<1, 4>>, <<4, 2>>, <<4, 1>> }

Macs == { <<"00:11:22:33:44:55">>, <<>> }

\* what RAND_bytes may leave in the 16-byte buffer
Challenges ==
  { [i \in 1..MD5_DIGEST_LENGTH |-> 0],
    [i \in 1..MD5_DIGEST_LENGTH |-> i],
    [i \in 1..MD5_DIGEST_LENGTH |-> (7 * i + 250) % 256] }

Inputs ==
  [server : Ips, secret : Secrets, username : Ips, password : Passwords, mac : Macs]

NoInput ==
  [server |-> CHOOSE i \in Ips : i.text = "192.0.2.1", secret |-> <<>>,
   username |-> CHOOSE i \in Ips : i.text = "192.0.2.1", password |-> <<>>,
   mac |-> <<>>]

\* IpAddress::get_bracketed / get_expanded
get_bracketed(ip) == <<"[", ip.text, "]">>
get_expanded(ip) == <<ip.expanded>>

(* ------------------------------------------------------------------ *)
(* The server's answers                                                *)
(* ------------------------------------------------------------------ *)
Replies == {"Access-Accept", "Access-Reject", "Malformed", "NoReply", "NetError"}

\* a reply attribute: its name, its value, and whether rc_avpair_tostr can
\* render it with the loaded dictionaries
ReplyAttrs ==
  { [name |-> "Reply-Message", value |-> "Welcome", decodable |-> TRUE],
    [name |-> "Framed-IP-Address", value |-> "10.0.0.7", decodable |-> TRUE],
    [name |-> "Unknown-26", value |-> "", decodable |-> FALSE] }

SeqsUpTo(S, n) == UNION { [1..k -> S] : k \in 0..n }

ReplyLists == SeqsUpTo(ReplyAttrs, MaxReplyAttrs)

\* the result code rc_aaa gives for each answer
AaaResult(reply) ==
  CASE reply = "Access-Accept" -> OK_RC
    [] reply = "Access-Reject" -> REJECT_RC
    [] reply = "Malformed" -> BADRESP_RC
    [] reply = "NoReply" -> TIMEOUT_RC
    [] OTHER -> ERROR_RC

\* the attribute lists rc_aaa may hand back with each answer: a reply that
\* arrived and was parsed carries its attributes, whatever its code
AaaReceived(reply) ==
  IF reply \in {"Access-Accept", "Access-Reject"} THEN ReplyLists ELSE { <<>> }

(* ------------------------------------------------------------------ *)
(* MD5, stood in for by a 16-byte digest that depends on every byte    *)
(* of its input and on their order                                     *)
(* ------------------------------------------------------------------ *)
RECURSIVE WSum(_, _)
WSum(s, j) == IF j > Len(s) THEN 0 ELSE j * s[j] + WSum(s, j + 1)

MD5(s) ==
  LET w == WSum(s, 1)
  IN [i \in 1..MD5_DIGEST_LENGTH |-> (w * i + Len(s)) % 256]

\* a variant that hashes the challenge before the password
ChapHashInput_ChallengeFirst(password, chal) == <<1>> \o chal \o password

\* lines 122-125: the hash input
ChapHashInput(password, chal) == <<1>> \o password \o chal

\* a variant that copies 16 bytes of the hash input instead of the digest
ChapResponse_CopiesHashInput(password, chal) ==
  <<1>> \o SubSeq(ChapHashInput(password, chal), 1, MD5_DIGEST_LENGTH)

\* lines 131-134: the CHAP-Password value
ChapResponse(password, chal) == <<1>> \o MD5(ChapHashInput(password, chal))

(* ------------------------------------------------------------------ *)
(* State                                                               *)
(* ------------------------------------------------------------------ *)
VARIABLES
  pc,        \* pc[p]: the library call process p makes next, "done" after return
  in,        \* in[p]: the arguments of p's call
  heap,      \* every object allocated so far: [kind, owner, live, data]
  rh,        \* rh[p]: unique_rc_handle rh (0: null)
  send,      \* send[p]: unique_VALUE_PAIR send (0: null)
  send_raw,  \* send_raw[p]: VALUE_PAIR *send_raw
  received,  \* received[p]: VALUE_PAIR *received, the list rc_aaa handed back
  vp,        \* vp[p]: unique_VALUE_PAIR vp of the success branch (0: null)
  cursor,    \* cursor[p]: how far `received` has walked down its list
  challenge, \* challenge[p]: the 16 bytes of challenge_bytes
  randOk,    \* randOk[p]: whether RAND_bytes reported success
  calls,     \* calls[p]: the library calls made so far, in order
  failed,    \* failed[p]: the calls that reported failure
  request,   \* request[p]: the AVP list handed to rc_aaa, <<>> before
  reply,     \* reply[p]: the server's answer to p's request, "none" before
  result,    \* result[p]: int result
  ret,       \* ret[p]: the value radius_transact returned
  reported   \* reported[p]: the name=value lines printed for the reply

vars ==
  <<pc, in, heap, rh, send, send_raw, received, vp, cursor, challenge, randOk,
    calls, failed, request, reply, result, ret, reported>>

\* a variant that adds the manufacturer before the MAC
StepOrder_MacAfterManufacturer ==
  << "rc_new", "rc_config_init", "cfg_dictionary", "cfg_authserver",
     "cfg_retries", "cfg_timeout", "rc_test_config", "read_dictionary",
     "read_softbank", "avp_username", "rand_bytes", "avp_challenge",
     "avp_password", "avp_manufacturer", "avp_mac", "avp_model", "avp_hwrev",
     "rc_aaa" >>

\* a variant that validates the configuration after reading the dictionaries
StepOrder_ValidateAfterDictionaries ==
  << "rc_new", "rc_config_init", "cfg_dictionary", "cfg_authserver",
     "cfg_retries", "cfg_timeout", "read_dictionary", "read_softbank",
     "rc_test_config", "avp_username", "rand_bytes", "avp_challenge",
     "avp_password", "avp_mac", "avp_manufacturer", "avp_model", "avp_hwrev",
     "rc_aaa" >>

\* the calls of one transaction, in program order
StepOrder ==
  << "rc_new", "rc_config_init", "cfg_dictionary", "cfg_authserver",
     "cfg_retries", "cfg_timeout", "rc_test_config", "read_dictionary",
     "read_softbank", "avp_username", "rand_bytes", "avp_challenge",
     "avp_password", "avp_mac", "avp_manufacturer", "avp_model", "avp_hwrev",
     "rc_aaa" >>

IndexOf(step) == CHOOSE i \in 1..Len(StepOrder) : StepOrder[i] = step

ConfigSteps == { StepOrder[i] : i \in 1..9 }
AvpSteps == { StepOrder[i] : i \in 10..17 } \ {"rand_bytes"}

\* a variant whose vendor-dictionary check lacks its return
NextAfter_NoReturnOnDictFailure(step, ok) ==
  IF ok \/ step = "read_softbank" THEN StepOrder[IndexOf(step) + 1] ELSE "done"

\* a variant whose HW-revision check lacks its return
NextAfter_NoReturnOnAvpFailure(step, ok) ==
  IF ok \/ step = "avp_hwrev" THEN StepOrder[IndexOf(step) + 1] ELSE "done"

\* a variant that starts over with a new handle when a pair cannot be built
NextAfter_RestartOnAvpFailure(step, ok) ==
  IF ok THEN StepOrder[IndexOf(step) + 1]
  ELSE IF step \in AvpSteps THEN "rc_new" ELSE "done"

\* where control goes after `step`: on to the next statement, or out through
\* the `return ERROR_RC` of its failure branch
NextAfter(step, ok) == IF ok THEN StepOrder[IndexOf(step) + 1] ELSE "done"

\* a variant that folds every failure into ERROR_RC
ReturnOf_ErrorOnAnyFailure(res) == IF res = OK_RC THEN OK_RC ELSE ERROR_RC

\* a variant that reports a timeout as a plain error
ReturnOf_TimeoutAsError(res) == IF res = TIMEOUT_RC THEN ERROR_RC ELSE res

\* line 191: return result
ReturnOf(res) == res

\* line 173: if (result == OK_RC)
IsSuccess(res) == res = OK_RC

\* a variant of the loop that never moves on
AdvanceCursor_Stuck(c) == c

\* a variant that steps over the pair after the one just printed
AdvanceCursor_SkipsOne(c) == c + 2

\* line 184: received = rc_avpair_next(received)
AdvanceCursor(c) == c + 1

\* a variant that leaves the loop at the first pair rc_avpair_tostr rejects
AfterDecode_BreakOnFailure(c, ok, n) == IF ok THEN AdvanceCursor(c) ELSE n + 1

\* lines 180-184: where `received` stands after one turn of the loop over a
\* list of n pairs, ok telling whether rc_avpair_tostr returned 0: it moves on
\* either way
AfterDecode(c, ok, n) == AdvanceCursor(c)

\* a variant in which a pair that cannot be rendered turns the result into an error
ResultAfterDecode_ErrorOnFailure(res, ok) == IF ok THEN res ELSE ERROR_RC

\* lines 180-184: `result` after one turn of the loop: the loop never assigns it
ResultAfterDecode(res, ok) == res

\* the smart pointers' deleters (rc_destroy, rc_avpair_free): the object is dead
Release(h, ids) ==
  [i \in 1..Len(h) |-> IF i \in ids THEN [h[i] EXCEPT !.live = FALSE] ELSE h[i]]

\* a variant in which the session handle is one object all calls share, torn
\* down by whichever call returns
Scoped_SharedHandle(p) ==
  ({send[p], vp[p]} \ {0}) \cup { i \in 1..Len(heap) : heap[i].kind = "handle" }

\* the objects the frame's smart pointers hold when the function returns
Scoped(p) == {rh[p], send[p], vp[p]} \ {0}

NewObject(kind, p, data) == [kind |-> kind, owner |-> p, live |-> TRUE, data |-> data]

\* the object `id` with one more entry
Extend(h, id, entry) == [h EXCEPT ![id].data = Append(@, entry)]

\* rc_conf_str(rh, name): the value last set for name
rc_conf_str(h, id, name) ==
  LET d == h[id].data
      ks == { i \in 1..Len(d) : d[i].name = name }
  IN d[CHOOSE i \in ks : \A j \in ks : j <= i].value

Avp(attr, vendor, value) == [attr |-> attr, vendor |-> vendor, value |-> value]

Init ==
  /\ in \in [Procs -> Inputs]
  /\ in[2] = NoInput
  /\ pc = [p \in Procs |-> IF p = 1 THEN "rc_new" ELSE "idle"]
  /\ heap = <<>>
  /\ rh = [p \in Procs |-> 0]
  /\ send = [p \in Procs |-> 0]
  /\ send_raw = [p \in Procs |-> 0]
  /\ received = [p \in Procs |-> 0]
  /\ vp = [p \in Procs |-> 0]
  /\ cursor = [p \in Procs |-> 0]
  /\ challenge = [p \in Procs |-> <<>>]
  /\ randOk = [p \in Procs |-> FALSE]
  /\ calls = [p \in Procs |-> <<>>]
  /\ failed = [p \in Procs |-> {}]
  /\ request = [p \in Procs |-> <<>>]
  /\ reply = [p \in Procs |-> "none"]
  /\ result = [p \in Procs |-> NO_RC]
  /\ ret = [p \in Procs |-> NO_RC]
  /\ reported = [p \in Procs |-> <<>>]

(* ------------------------------------------------------------------ *)
(* The steps of radius_transact                                        *)
(* ------------------------------------------------------------------ *)
\* One library call with a failure branch: `if (call(...) fails) return ERROR_RC;`.
\* h2, rh2, send2 are the heap and the two smart pointers after a successful call.
\* A return runs the destructors of the frame's smart pointers.
LibStep(p, step, ok, h2, rh2, send2) ==
  /\ pc[p] = step
  /\ calls' = [calls EXCEPT ![p] = Append(@, step)]
  /\ failed' = [failed EXCEPT ![p] = IF ok THEN @ ELSE @ \cup {step}]
  /\ LET nxt == NextAfter(step, ok)
     IN /\ pc' = [pc EXCEPT ![p] = nxt]
        /\ IF nxt = "done"
           THEN /\ ret' = [ret EXCEPT ![p] = ERROR_RC]
                /\ heap' = Release(heap, Scoped(p))
                /\ UNCHANGED <<rh, send, send_raw>>
           ELSE /\ UNCHANGED ret
                /\ heap' = IF ok THEN h2 ELSE heap
                /\ rh' = IF ok THEN [rh EXCEPT ![p] = rh2] ELSE rh
                /\ send' = IF ok THEN [send EXCEPT ![p] = send2] ELSE send
                /\ send_raw' = IF ok THEN [send_raw EXCEPT ![p] = send2] ELSE send_raw
  /\ UNCHANGED <<in, received, vp, cursor, challenge, randOk, request, reply,
                 result, reported>>

\* lines 46-50
RcNew(p) ==
  \E ok \in BOOLEAN :
    LibStep(p, "rc_new", ok, Append(heap, NewObject("handle", p, <<>>)),
            Len(heap) + 1, send[p])

\* lines 52-55
RcConfigInit(p) ==
  \E ok \in BOOLEAN : LibStep(p, "rc_config_init", ok, heap, rh[p], send[p])

\* rc_add_config(rh, name, value, "config", 0)
AddConfig(p, step, name, value) ==
  \E ok \in BOOLEAN :
    LibStep(p, step, ok, Extend(heap, rh[p], [name |-> name, value |-> value]),
            rh[p], send[p])

\* lines 57-61
SetDictionary(p) ==
  AddConfig(p, "cfg_dictionary", "dictionary", <<"/etc/radcli/dictionary">>)

\* lines 63-66
AuthServer(ip, secret) == get_bracketed(ip) \o <<"::">> \o secret

\* lines 67-71
SetAuthServer(p) ==
  AddConfig(p, "cfg_authserver", "authserver", AuthServer(in[p].server, in[p].secret))

\* lines 73-76
SetRetries(p) == AddConfig(p, "cfg_retries", "radius_retries", <<"3">>)

\* lines 78-81
SetTimeout(p) == AddConfig(p, "cfg_timeout", "radius_timeout", <<"5">>)

\* lines 83-86
TestConfig(p) ==
  \E ok \in BOOLEAN : LibStep(p, "rc_test_config", ok, heap, rh[p], send[p])

\* rc_read_dictionary(rh, path)
ReadDict(p, step, path) ==
  \E ok \in BOOLEAN :
    LibStep(p, step, ok,
            Extend(heap, rh[p], [name |-> "rc_read_dictionary", value |-> path]),
            rh[p], send[p])

\* lines 88-91
ReadDictionary(p) ==
  /\ pc[p] = "read_dictionary"
  /\ ReadDict(p, "read_dictionary", rc_conf_str(heap, rh[p], "dictionary"))

\* lines 93-96
ReadSoftbank(p) == ReadDict(p, "read_softbank", <<"dictionary.softbank">>)

\* lines 98-105: the list starts with User-Name
AvpUserName(p) ==
  \E ok \in BOOLEAN :
    LibStep(p, "avp_username", ok,
            Append(heap, NewObject("avlist", p,
                     << Avp(PW_USER_NAME, VENDOR_NONE, get_expanded(in[p].username)) >>)),
            rh[p], Len(heap) + 1)

\* lines 110-115: the return value of RAND_bytes is not looked at; when it
\* fails the buffer keeps whatever the allocation held
RandBytes(p) ==
  /\ pc[p] = "rand_bytes"
  /\ \E ok \in BOOLEAN, c \in Challenges :
       /\ randOk' = [randOk EXCEPT ![p] = ok]
       /\ challenge' = [challenge EXCEPT ![p] = c]
  /\ calls' = [calls EXCEPT ![p] = Append(@, "rand_bytes")]
  /\ pc' = [pc EXCEPT ![p] = "avp_challenge"]
  /\ UNCHANGED <<in, heap, rh, send, send_raw, received, vp, cursor, failed,
                 request, reply, result, ret, reported>>

\* rc_avpair_add(rh, &send_raw, attr, value, len, vendor): one more pair at the
\* end of the list send_raw points to
AvpAdd(p, step, attr, vendor, value) ==
  \E ok \in BOOLEAN :
    LibStep(p, step, ok, Extend(heap, send_raw[p], Avp(attr, vendor, value)),
            rh[p], send[p])

\* lines 116-120
AvpChallenge(p) ==
  AvpAdd(p, "avp_challenge", PW_CHAP_CHALLENGE, VENDOR_NONE, challenge[p])

\* lines 122-140
AvpPassword(p) ==
  AvpAdd(p, "avp_password", PW_CHAP_PASSWORD, VENDOR_NONE,
         ChapResponse(in[p].password, challenge[p]))

\* lines 142-146
AvpMac(p) == AvpAdd(p, "avp_mac", kSbBBMac, kVendorSoftbank, in[p].mac)

\* lines 148-154
AvpManufacturer(p) ==
  AvpAdd(p, "avp_manufacturer", kSbBBManufacturer, kVendorSoftbank, kManufacturer)

\* lines 156-161
AvpModel(p) == AvpAdd(p, "avp_model", kSbBBModel, kVendorSoftbank, kModel)

\* lines 163-168
AvpHwRev(p) == AvpAdd(p, "avp_hwrev", kSbBBHWRev, kVendorSoftbank, kHwRev)

\* lines 170-172: the one blocking call; the server's answer and the list the
\* library hands back are the environment's
Aaa(p) ==
  /\ pc[p] = "rc_aaa"
  /\ \E r \in Replies :
       \E attrs \in AaaReceived(r) :
         /\ reply' = [reply EXCEPT ![p] = r]
         /\ result' = [result EXCEPT ![p] = AaaResult(r)]
         /\ IF Len(attrs) = 0
            THEN /\ received' = [received EXCEPT ![p] = 0]
                 /\ UNCHANGED heap
            ELSE /\ received' = [received EXCEPT ![p] = Len(heap) + 1]
                 /\ heap' = Append(heap, NewObject("avlist", p, attrs))
  /\ request' = [request EXCEPT ![p] = heap[send[p]].data]
  /\ calls' = [calls EXCEPT ![p] = Append(@, "rc_aaa")]
  /\ pc' = [pc EXCEPT ![p] = "check"]
  /\ UNCHANGED <<in, rh, send, send_raw, vp, cursor, challenge, randOk, failed,
                 ret, reported>>

\* the list `received` walks
ReceivedList(p) == IF received[p] = 0 THEN <<>> ELSE heap[received[p]].data

\* lines 173-177: the success branch adopts the received list
CheckOk(p) ==
  /\ pc[p] = "check"
  /\ IsSuccess(result[p])
  /\ vp' = [vp EXCEPT ![p] = received[p]]
  /\ cursor' = [cursor EXCEPT ![p] = 1]
  /\ pc' = [pc EXCEPT ![p] = "decode"]
  /\ UNCHANGED <<in, heap, rh, send, send_raw, received, challenge, randOk, calls,
                 failed, request, reply, result, ret, reported>>

\* lines 186-191: the failure branch prints and returns
CheckFail(p) ==
  /\ pc[p] = "check"
  /\ ~IsSuccess(result[p])
  /\ ret' = [ret EXCEPT ![p] = ReturnOf(result[p])]
  /\ heap' = Release(heap, Scoped(p))
  /\ pc' = [pc EXCEPT ![p] = "done"]
  /\ UNCHANGED <<in, rh, send, send_raw, received, vp, cursor, challenge, randOk,
                 calls, failed, request, reply, result, reported>>

\* lines 179-185: one turn of the loop
Decode(p) ==
  /\ pc[p] = "decode"
  /\ cursor[p] <= Len(ReceivedList(p))
  /\ LET a == ReceivedList(p)[cursor[p]]
     IN /\ reported' = [reported EXCEPT ![p] =
                          IF a.decodable THEN Append(@, <<a.name, a.value>>) ELSE @]
        /\ cursor' = [cursor EXCEPT ![p] =
                        AfterDecode(@, a.decodable, Len(ReceivedList(p)))]
        /\ result' = [result EXCEPT ![p] = ResultAfterDecode(@, a.decodable)]
  /\ UNCHANGED <<pc, in, heap, rh, send, send_raw, received, vp, challenge, randOk,
                 calls, failed, request, reply, ret>>

\* lines 179, 185, 191: the loop ends, vp frees the list, the function returns
DecodeEnd(p) ==
  /\ pc[p] = "decode"
  /\ cursor[p] > Len(ReceivedList(p))
  /\ ret' = [ret EXCEPT ![p] = ReturnOf(result[p])]
  /\ heap' = Release(heap, Scoped(p))
  /\ pc' = [pc EXCEPT ![p] = "done"]
  /\ UNCHANGED <<in, rh, send, send_raw, received, vp, cursor, challenge, randOk,
                 calls, failed, request, reply, result, reported>>

\* one step of process p's call
ProcStep(p) ==
    \/ RcNew(p)
    \/ RcConfigInit(p)
    \/ SetDictionary(p)
    \/ SetAuthServer(p)
    \/ SetRetries(p)
    \/ SetTimeout(p)
    \/ TestConfig(p)
    \/ ReadDictionary(p)
    \/ ReadSoftbank(p)
    \/ AvpUserName(p)
    \/ RandBytes(p)
    \/ AvpChallenge(p)
    \/ AvpPassword(p)
    \/ AvpMac(p)
    \/ AvpManufacturer(p)
    \/ AvpModel(p)
    \/ AvpHwRev(p)
    \/ Aaa(p)
    \/ CheckOk(p)
    \/ CheckFail(p)
    \/ Decode(p)
    \/ DecodeEnd(p)

Next == \E p \in Procs : ProcStep(p)

Spec == Init /\ [][Next]_vars

\* two calls in flight at once, alike in everything but the password
PairInputs ==
  { i \in Inputs : /\ i.server.text = "192.0.2.1"
                   /\ i.username.text = "2001:db8::1"
                   /\ i.secret = <<"s3cret">>
                   /\ i.mac = <<"00:11:22:33:44:55">> }

InitPair ==
  /\ in \in [Procs -> PairInputs]
  /\ in[1].password = <<1, 4>>
  /\ in[2].password \in { <<4, 2>>, <<4, 1>> }
  /\ pc = [p \in Procs |-> "rc_new"]
  /\ heap = <<>>
  /\ rh = [p \in Procs |-> 0]
  /\ send = [p \in Procs |-> 0]
  /\ send_raw = [p \in Procs |-> 0]
  /\ received = [p \in Procs |-> 0]
  /\ vp = [p \in Procs |-> 0]
  /\ cursor = [p \in Procs |-> 0]
  /\ challenge = [p \in Procs |-> <<>>]
  /\ randOk = [p \in Procs |-> FALSE]
  /\ calls = [p \in Procs |-> <<>>]
  /\ failed = [p \in Procs |-> {}]
  /\ request = [p \in Procs |-> <<>>]
  /\ reply = [p \in Procs |-> "none"]
  /\ result = [p \in Procs |-> NO_RC]
  /\ ret = [p \in Procs |-> NO_RC]
  /\ reported = [p \in Procs |-> <<>>]

\* the attribute lists the server answers with when two calls are in flight
PairReplyLists ==
  { <<>>,
    << [name |-> "Unknown-26", value |-> "", decodable |-> FALSE],
       [name |-> "Framed-IP-Address", value |-> "10.0.0.7", decodable |-> TRUE] >> }

\* rc_aaa answering one of those lists
AaaPair(p) ==
  /\ Aaa(p)
  /\ received'[p] # 0 => heap'[received'[p]].data \in PairReplyLists

ProcStepPair(p) ==
    \/ RcNew(p)
    \/ RcConfigInit(p)
    \/ SetDictionary(p)
    \/ SetAuthServer(p)
    \/ SetRetries(p)
    \/ SetTimeout(p)
    \/ TestConfig(p)
    \/ ReadDictionary(p)
    \/ ReadSoftbank(p)
    \/ AvpUserName(p)
    \/ RandBytes(p)
    \/ AvpChallenge(p)
    \/ AvpPassword(p)
    \/ AvpMac(p)
    \/ AvpManufacturer(p)
    \/ AvpModel(p)
    \/ AvpHwRev(p)
    \/ AaaPair(p)
    \/ CheckOk(p)
    \/ CheckFail(p)
    \/ Decode(p)
    \/ DecodeEnd(p)

NextPair == \E p \in Procs : ProcStepPair(p)

SpecPair == InitPair /\ [][NextPair]_vars

\* a thread inside radius_transact keeps running, and every library call returns
FairSpec == Spec /\ \A p \in Procs : WF_vars(ProcStep(p))

(* ------------------------------------------------------------------ *)
(* The transaction's state, as the specification names it              *)
(* ------------------------------------------------------------------ *)
TxnState(p) ==
  CASE pc[p] = "idle" \/ pc[p] \in ConfigSteps -> "Uninitialized"
    [] pc[p] \in AvpSteps \cup {"rand_bytes", "rc_aaa"} -> "Configured"
    [] pc[p] \in {"check", "decode"} -> "Sent"
    [] ret[p] = OK_RC -> "Accepted"
    [] ret[p] = REJECT_RC -> "Rejected"
    [] OTHER -> "Failed"

\* how many steps the call can still take, at most
Measure(p) ==
  CASE pc[p] \in {"idle", "done"} -> 0
    [] pc[p] = "decode" -> 2 + Len(ReceivedList(p)) - cursor[p]
    [] pc[p] = "check" -> 3 + Len(ReceivedList(p))
    [] OTHER -> 4 + MaxReplyAttrs + Len(StepOrder) - IndexOf(pc[p])

(* ------------------------------------------------------------------ *)
(* Properties                                                          *)
(* ------------------------------------------------------------------ *)
Sent(p) == reply[p] # "none"
Returned(p) == pc[p] = "done"

\* the calls up to and including `step`, in program order
CallsThrough(step) == SubSeq(StepOrder, 1, IndexOf(step))

\* C1: once a configuration step has failed, the call has returned ERROR_RC,
\* the failed step is the last library call it made, and rc_aaa was never
\* invoked (nothing was handed to the network).
C1_ConfigFailureAborts ==
  \A p \in Procs :
    \A step \in failed[p] \cap ConfigSteps :
      /\ Returned(p)
      /\ ret[p] = ERROR_RC
      /\ calls[p] = CallsThrough(step)
      /\ ~Sent(p)
      /\ request[p] = <<>>

C1_Witness ==
  \E p \in Procs :
    /\ Returned(p)
    /\ "cfg_authserver" \in failed[p]
    /\ Len(calls[p]) = 4

\* C2: whenever an Access-Request was sent, it carried exactly seven AVPs in
\* the order User-Name, CHAP-Challenge, CHAP-Password (vendor none), then
\* vendor 22197 types 1..4 = MAC, manufacturer, model, hardware revision,
\* with the MAC equal to the caller's string.
C2_RequestAvps ==
  \A p \in Procs :
    Sent(p) =>
      LET r == request[p]
      IN /\ Len(r) = 7
         /\ [i \in 1..7 |-> r[i].attr] = <<1, 60, 3, 1, 2, 3, 4>>
         /\ [i \in 1..7 |-> r[i].vendor] = <<0, 0, 0, 22197, 22197, 22197, 22197>>
         /\ r[1].value = <<in[p].username.expanded>>
         /\ r[2].value = challenge[p]
         /\ Len(r[2].value) = 16
         /\ Len(r[3].value) = 17
         /\ r[4].value = in[p].mac
         /\ r[5].value = <<"foxconn">>
         /\ r[6].value = <<"e-wmta2.3,V5.0.0.1.rc35">>
         /\ r[7].value = <<"hw_rev_2.00">>

C2_Witness ==
  \E p \in Procs :
    /\ Sent(p)
    /\ Len(request[p]) = 7
    /\ in[p].mac = <<"00:11:22:33:44:55">>
    /\ in[p].username.text = "2001:db8::1"

\* C3: the CHAP-Password value of a sent request is 17 bytes, byte 0 is 1, and
\* bytes 1-16 are the digest of (0x01, password, challenge) in that order,
\* the challenge being the value of the same request's CHAP-Challenge AVP.
C3_ChapResponse ==
  \A p \in Procs :
    Sent(p) =>
      LET C == request[p][2].value
          R == request[p][3].value
      IN /\ request[p][2].attr = PW_CHAP_CHALLENGE
         /\ request[p][3].attr = PW_CHAP_PASSWORD
         /\ Len(C) = 16
         /\ Len(R) = 17
         /\ R[1] = 1
         /\ SubSeq(R, 2, 17) = MD5(<<1>> \o in[p].password \o C)

C3_Witness ==
  \E p \in Procs :
    /\ Sent(p)
    /\ in[p].password = <<4, 1>>
    /\ request[p][2].value[2] = 2

\* C4: a returned call whose server answered Access-Reject returned a code
\* that is none of the success code, the no-reply code and the setup error
\* code; one whose server answered Access-Accept returned the success code;
\* and the success code is returned in no other case.
C4_ResultCodes ==
  \A p \in Procs :
    Returned(p) =>
      /\ reply[p] = "Access-Reject" => ret[p] \notin {OK_RC, TIMEOUT_RC, ERROR_RC}
      /\ reply[p] = "NoReply" => ret[p] = TIMEOUT_RC
      /\ failed[p] # {} => ret[p] = ERROR_RC
      /\ reply[p] = "Access-Accept" => ret[p] = OK_RC
      /\ ret[p] = OK_RC => reply[p] = "Access-Accept"

C4_Witness ==
  \E p \in Procs :
    /\ Returned(p)
    /\ reply[p] = "Access-Reject"
    /\ ret[p] = REJECT_RC

\* C6: every call that started eventually returns a result; every step it
\* takes brings its return nearer; and a call whose server never replied
\* returned the no-reply code, which is not the success code.
C6_Terminates ==
  /\ \A p \in Procs : [](pc[p] # "idle" => <>Returned(p))
  /\ [][\E p \in Procs :
          /\ Measure(p)' < Measure(p)
          /\ \A q \in Procs \ {p} : Measure(q)' = Measure(q)]_vars
  /\ [](\A p \in Procs :
          Returned(p) =>
            /\ ret[p] # NO_RC
            /\ reply[p] = "NoReply" => ret[p] = TIMEOUT_RC /\ ret[p] # OK_RC)

C6_Witness ==
  \E p \in Procs :
    /\ Returned(p)
    /\ reply[p] = "NoReply"
    /\ ret[p] = TIMEOUT_RC

\* C7: when a call has returned, every object allocated for it (the session
\* handle, the outgoing AVP list, the received list) has been released.
C7_AllReleased ==
  \A p \in Procs :
    Returned(p) =>
      \A i \in 1..Len(heap) : heap[i].owner = p => ~heap[i].live

\* C8: a call given an empty shared secret never reaches the network (no
\* request is handed to rc_aaa), and what it returns is the setup error.
C8_EmptySecretFailsFast ==
  \A p \in Procs :
    (pc[p] # "idle" /\ in[p].secret = <<>>) =>
      /\ ~Sent(p)
      /\ request[p] = <<>>
      /\ Returned(p) => ret[p] = ERROR_RC

StateRank(s) ==
  CASE s = "Uninitialized" -> 0
    [] s = "Configured" -> 1
    [] s = "Sent" -> 2
    [] OTHER -> 3

\* C9: a transaction's state only moves forward through Uninitialized,
\* Configured, Sent and the terminal states; Sent is entered only from
\* Configured, Accepted and Rejected only from Sent; and a transaction in a
\* terminal state takes no further step.
C9_ForwardOnly ==
  [][\A p \in Procs :
       LET a == TxnState(p)
           b == TxnState(p)'
       IN /\ a # b => StateRank(a) < StateRank(b)
          /\ (a # b /\ b = "Sent") => a = "Configured"
          /\ (a # b /\ b \in {"Accepted", "Rejected"}) => a = "Sent"
          /\ StateRank(a) = 3 =>
               /\ a = b
               /\ <<pc[p], calls[p], ret[p], request[p], reported[p]>>'
                    = <<pc[p], calls[p], ret[p], request[p], reported[p]>>
               /\ \A i \in 1..Len(heap) : heap[i].owner = p => heap'[i] = heap[i]]_vars

C9_Witness ==
  \E p \in Procs :
    /\ TxnState(p) = "Accepted"
    /\ reported[p] # <<>>

\* C10: once the building of an AVP has failed, the call has returned
\* ERROR_RC, the failed call is the last library call it made (no later AVP
\* was built), and rc_aaa was never invoked.
C10_AvpFailureAborts ==
  \A p \in Procs :
    \A step \in failed[p] \cap AvpSteps :
      /\ Returned(p)
      /\ ret[p] = ERROR_RC
      /\ calls[p] = CallsThrough(step)
      /\ ~Sent(p)
      /\ request[p] = <<>>
      /\ send[p] # 0 =>
           Len(heap[send[p]].data) = Cardinality({ c \in AvpSteps : IndexOf(c) < IndexOf(step) })

C10_Witness ==
  \E p \in Procs :
    /\ Returned(p)
    /\ "avp_mac" \in failed[p]
    /\ Len(heap[send[p]].data) = 3

\* the two calls' arguments agree in everything but the password
SameButPassword(p, q) ==
  /\ in[p].server = in[q].server
  /\ in[p].secret = in[q].secret
  /\ in[p].username = in[q].username
  /\ in[p].mac = in[q].mac

\* C11: the password reaches the request only through the digest: two calls
\* that sent a request, agree in every argument but the password, drew the
\* same challenge and whose (0x01, password, challenge) digests are equal
\* sent identical requests; and no AVP value of a sent request is the raw
\* password.
C11_PasswordOnlyViaDigest ==
  \A p \in Procs :
    Sent(p) =>
      /\ \A i \in 1..Len(request[p]) : request[p][i].value # in[p].password
      /\ \A q \in Procs \ {p} :
           ( /\ Sent(q)
             /\ SameButPassword(p, q)
             /\ challenge[p] = challenge[q]
             /\ MD5(<<1>> \o in[p].password \o challenge[p])
                  = MD5(<<1>> \o in[q].password \o challenge[q]) )
           => request[p] = request[q]

C11_Witness ==
  /\ Sent(1)
  /\ Sent(2)
  /\ in[1].password = <<1, 4>>
  /\ in[2].password = <<4, 2>>
  /\ challenge[1] = challenge[2]
  /\ challenge[1][2] = 2
  /\ request[1] = request[2]

\* the (name, value) pairs of a list of reply attributes, in the list's order
PairsOf(l) == [i \in 1..Len(l) |-> <<l[i].name, l[i].value>>]

Decodable(a) == a.decodable

\* C12 as stated: after an Access-Accept the call returned success and the
\* pairs reported are exactly the reply's attributes, in order; after any other
\* result none is reported.
C12_ReportsAllAttributes ==
  \A p \in Procs :
    Returned(p) =>
      /\ reply[p] = "Access-Accept" =>
           /\ ret[p] = OK_RC
           /\ reported[p] = PairsOf(ReceivedList(p))
      /\ ret[p] # OK_RC => reported[p] = <<>>

\* C12, amended: after an Access-Accept the call returned success and the
\* pairs reported are exactly the reply's attributes that rc_avpair_tostr could
\* render, in the reply's order, none missing, duplicated or added; after any
\* other result none is reported.
C12_ReportsDecodableAttributes ==
  \A p \in Procs :
    Returned(p) =>
      /\ reply[p] = "Access-Accept" =>
           /\ ret[p] = OK_RC
           /\ reported[p] = PairsOf(SelectSeq(ReceivedList(p), Decodable))
      /\ ret[p] # OK_RC => reported[p] = <<>>

C12_Witness ==
  \E p \in Procs :
    /\ Returned(p)
    /\ reply[p] = "Access-Accept"
    /\ reported[p] = << <<"Reply-Message", "Welcome">>, <<"Framed-IP-Address", "10.0.0.7">> >>

\* C13: when rc_aaa reported success the call returns the success code, however
\* many reply attributes fail to decode and wherever they stand in the reply.
C13_DecodeFailureKeepsVerdict ==
  \A p \in Procs :
    (Returned(p) /\ AaaResult(reply[p]) = OK_RC) => ret[p] = OK_RC

C13_Witness ==
  \E p \in Procs :
    /\ Returned(p)
    /\ ret[p] = OK_RC
    /\ Len(ReceivedList(p)) = 2
    /\ ~ReceivedList(p)[1].decodable
    /\ ~ReceivedList(p)[2].decodable

\* the attributes of l that stand before its first undecodable one
RECURSIVE BeforeFirstFailure(_)
BeforeFirstFailure(l) ==
  IF l = <<>> \/ ~Head(l).decodable THEN <<>>
  ELSE <<Head(l)>> \o BeforeFirstFailure(Tail(l))

\* C14 as stated: on success no attribute that follows an undecodable one is
\* reported: the pairs reported are those before the first failure.
C14_StopsAtFirstFailure ==
  \A p \in Procs :
    (Returned(p) /\ ret[p] = OK_RC) =>
      reported[p] = PairsOf(BeforeFirstFailure(ReceivedList(p)))

\* C14, amended: on success an attribute that fails to decode is skipped and
\* decoding goes on: the loop visits every attribute of the reply, and every
\* attribute that decodes is reported, also when it follows a failed one.
C14_SkipsFailureAndContinues ==
  \A p \in Procs :
    (Returned(p) /\ ret[p] = OK_RC) =>
      LET l == ReceivedList(p)
      IN /\ cursor[p] = Len(l) + 1
         /\ \A i \in 1..Len(l) :
              l[i].decodable =>
                \E k \in 1..Len(reported[p]) : reported[p][k] = <<l[i].name, l[i].value>>

C14_Witness ==
  \E p \in Procs :
    /\ Returned(p)
    /\ ret[p] = OK_RC
    /\ Len(ReceivedList(p)) = 2
    /\ ~ReceivedList(p)[1].decodable
    /\ reported[p] = << <<"Framed-IP-Address", "10.0.0.7">> >>

\* C15: a call whose RAND_bytes reported failure sends no Access-Request and
\* returns the error code.
C15_RandFailureIsFatal ==
  \A p \in Procs :
    (challenge[p] # <<>> /\ ~randOk[p]) =>
      /\ ~Sent(p)
      /\ Returned(p) => ret[p] = ERROR_RC

\* the request a call builds from its own arguments and its own challenge
OwnRequest(p) ==
  << [attr |-> 1, vendor |-> 0, value |-> <<in[p].username.expanded>>],
     [attr |-> 60, vendor |-> 0, value |-> challenge[p]],
     [attr |-> 3, vendor |-> 0,
      value |-> <<1>> \o MD5(<<1>> \o in[p].password \o challenge[p])],
     [attr |-> 1, vendor |-> 22197, value |-> in[p].mac],
     [attr |-> 2, vendor |-> 22197, value |-> <<"foxconn">>],
     [attr |-> 3, vendor |-> 22197, value |-> <<"e-wmta2.3,V5.0.0.1.rc35">>],
     [attr |-> 4, vendor |-> 22197, value |-> <<"hw_rev_2.00">>] >>

\* the pointers a call holds
Held(p) == {rh[p], send[p], send_raw[p], received[p], vp[p]} \ {0}

\* C16: with two calls in flight, every object a call holds was created for
\* that call and no object is held by both; an object is changed only by a
\* step of the call it was created for, and released only by that call's
\* return; and the request a call sent and the code it returned are those its
\* own arguments, challenge and server answer give, whatever the other call did.
C16_CallsShareNothing ==
  /\ [](\A p \in Procs :
          /\ \A i \in Held(p) : heap[i].owner = p
          /\ \A q \in Procs \ {p} : Held(p) \cap Held(q) = {}
          /\ Sent(p) => request[p] = OwnRequest(p)
          /\ Returned(p) =>
               ret[p] = IF failed[p] # {} THEN ERROR_RC ELSE AaaResult(reply[p]))
  /\ [][\A i \in 1..Len(heap) :
          heap'[i] # heap[i] =>
            /\ pc'[heap[i].owner] # pc[heap[i].owner]
            /\ heap'[i].live # heap[i].live => pc'[heap[i].owner] = "done"
            /\ heap'[i].owner = heap[i].owner]_vars

C16_Witness ==
  /\ Returned(1)
  /\ Returned(2)
  /\ rh[1] = 2
  /\ send[1] = 3
  /\ received[1] = 6
  /\ received[2] = 5
  /\ ret[1] = OK_RC
  /\ ret[2] = REJECT_RC

\* where `name` stands in the calls p made, 0 when it made no such call
CallPos(p, name) ==
  IF \E i \in 1..Len(calls[p]) : calls[p][i] = name
  THEN CHOOSE i \in 1..Len(calls[p]) : calls[p][i] = name
  ELSE 0

\* C17: a call that has started to build AVPs has validated its configuration,
\* then read the base dictionary, then the vendor dictionary, all three with
\* success; and a call that has validated its configuration had by then set,
\* with success, the dictionary path, the authserver string (bracketed address,
\* "::", secret), radius_retries = 3 and radius_timeout = 5.
C17_ConfigurationOrder ==
  \A p \in Procs :
    /\ CallPos(p, "avp_username") # 0 =>
         /\ 0 < CallPos(p, "rc_test_config")
         /\ CallPos(p, "rc_test_config") < CallPos(p, "read_dictionary")
         /\ CallPos(p, "read_dictionary") < CallPos(p, "read_softbank")
         /\ CallPos(p, "read_softbank") < CallPos(p, "avp_username")
         /\ failed[p] \cap {"rc_test_config", "read_dictionary", "read_softbank"} = {}
         /\ SubSeq(heap[rh[p]].data, 5, 6)
              = << [name |-> "rc_read_dictionary", value |-> <<"/etc/radcli/dictionary">>],
                   [name |-> "rc_read_dictionary", value |-> <<"dictionary.softbank">>] >>
    /\ CallPos(p, "rc_test_config") # 0 =>
         /\ \A c \in {"cfg_dictionary", "cfg_authserver", "cfg_retries", "cfg_timeout"} :
              /\ 0 < CallPos(p, c)
              /\ CallPos(p, c) < CallPos(p, "rc_test_config")
              /\ c \notin failed[p]
         /\ SubSeq(heap[rh[p]].data, 1, 4)
              = << [name |-> "dictionary", value |-> <<"/etc/radcli/dictionary">>],
                   [name |-> "authserver",
                    value |-> <<"[", in[p].server.text, "]", "::">> \o in[p].secret],
                   [name |-> "radius_retries", value |-> <<"3">>],
                   [name |-> "radius_timeout", value |-> <<"5">>] >>

C17_Witness ==
  \E p \in Procs :
    /\ CallPos(p, "avp_username") = 10
    /\ in[p].secret = <<"s3cret">>
    /\ in[p].server.text = "2001:db8::1"
    /\ send[p] # 0

\* C18: a returned call returned ERROR_RC when a call before the send failed,
\* and otherwise exactly the code rc_aaa gave; rc_aaa is invoked at most once.
C18_ReturnValue ==
  \A p \in Procs :
    /\ Cardinality({ i \in 1..Len(calls[p]) : calls[p][i] = "rc_aaa" }) <= 1
    /\ Returned(p) =>
         IF failed[p] # {}
         THEN ret[p] = ERROR_RC /\ CallPos(p, "rc_aaa") = 0
         ELSE /\ CallPos(p, "rc_aaa") # 0
              /\ ret[p] = AaaResult(reply[p])
              /\ ret[p] = result[p]

C18_Witness ==
  \E p \in Procs :
    /\ Returned(p)
    /\ failed[p] = {}
    /\ ret[p] = TIMEOUT_RC

====
